---- MODULE Spec2Model ----
(***************************************************************************)
(* Model of src/src/index.ts: the two Provider Clients (callOpenAI,        *)
(* callDeepSeek), the fallback Coordinator (callAI) and the query          *)
(* resolvers chatGPT, deepseek, askAI, pokemonInfo and comparePokemon.     *)
(*                                                                         *)
(* A request is an async resolver call.  It runs synchronously up to the   *)
(* next `await`; there it is suspended until the upstream response (or a   *)
(* network failure) arrives.  One action starts a resolver and runs it to  *)
(* its first suspension or to completion; one action delivers the response *)
(* of a pending fetch and runs the continuation.                           *)
(***************************************************************************)
EXTENDS Integers, Sequences, FiniteSets, TLC

VARIABLES env, reqs, rq

vars == <<env, reqs, rq>>

(***************************************************************************)
(* JavaScript values.  An optional string (a key of Env, a GraphQL         *)
(* argument) is a string or undefined; objects that may be missing are     *)
(* sequences of length 0 (undefined) or 1.                                 *)
(***************************************************************************)
Undefined == "<undefined>"

Truthy(s) == s # Undefined /\ s # ""

Or(a, b) == IF Truthy(a) THEN a ELSE b

Default(a, d) == IF a = Undefined THEN d ELSE a

None == <<>>

Some(x) == <<x>>

IsSome(o) == Len(o) > 0

Get(o) == o[1]

(***************************************************************************)
(* Bounds of the model.                                                    *)
(***************************************************************************)
MaxTokens == 1

AllReqs == {1, 2}

Prompts == {"hi"}

Keys(k) == {Undefined, "", k}

Envs ==
  [OPENAI_API_KEY : Keys("sk-openai"),
   DEEPSEEK_API_KEY : Keys("sk-deepseek"),
   DEFAULT_MODEL : {Undefined, "", "gpt-4o"}]

ProviderArgs == {Undefined, "openai", "deepseek", "claude"}

ModelArgs == {Undefined, "", "gpt-4"}

(***************************************************************************)
(* Upstream responses.  A body is its raw text and, when the text is       *)
(* JSON, the parsed object; the raw texts are in the form JSON.stringify   *)
(* prints, so that JSON.stringify(JSON.parse(raw)) = raw.                  *)
(***************************************************************************)
Usages ==
  {None} \cup
  {Some([prompt_tokens |-> n, completion_tokens |-> 2 * n, total_tokens |-> 3 * n]) :
     n \in 0..MaxTokens}

UsageText(u) ==
  IF IsSome(u)
  THEN <<"\"usage\":{\"prompt_tokens\":" \o ToString(Get(u).prompt_tokens)
         \o ",\"completion_tokens\":" \o ToString(Get(u).completion_tokens)
         \o ",\"total_tokens\":" \o ToString(Get(u).total_tokens) \o "}">>
  ELSE <<>>

RECURSIVE Join(_)
Join(members) ==
  IF Len(members) = 0 THEN ""
  ELSE IF Len(members) = 1 THEN members[1]
  ELSE members[1] \o "," \o Join(Tail(members))

Json(members, error, choices, usage) ==
  [raw |-> "{" \o Join(members \o UsageText(usage)) \o "}",
   json |-> Some([error |-> error, choices |-> choices, usage |-> usage])]

NotJson(raw) ==
  [raw |-> raw,
   json |-> None]

Choice(message) == [message |-> message]

Message(content) == Some([content |-> content])

ErrBodies ==
  {NotJson("Unauthorized"),
   Json(<<>>, None, None, None),
   Json(<<"\"error\":{\"type\":\"insufficient_quota\"}">>,
        Some([type |-> "insufficient_quota"]), None, None),
   Json(<<"\"error\":{\"type\":\"invalid_api_key\"}">>,
        Some([type |-> "invalid_api_key"]), None, None)}

OkBodies ==
  {NotJson("<html>")} \cup
  UNION {
    {Json(<<>>, None, None, u),
     Json(<<"\"choices\":[]">>, None, Some(<<>>), u),
     Json(<<"\"choices\":[{}]">>, None, Some(<<Choice(None)>>), u),
     Json(<<"\"choices\":[{\"message\":{}}]">>, None,
          Some(<<Choice(Message(Undefined))>>), u),
     Json(<<"\"choices\":[{\"message\":{\"content\":\"\"}}]">>, None,
          Some(<<Choice(Message(""))>>), u),
     Json(<<"\"choices\":[{\"message\":{\"content\":\"hello\"}}]">>, None,
          Some(<<Choice(Message("hello"))>>), u)} :
    u \in Usages}

NetworkFailure == [net |-> TRUE, status |-> 0, body |-> NotJson("")]

Responses ==
  {NetworkFailure} \cup
  [net : {FALSE}, status : {401, 429}, body : ErrBodies] \cup
  [net : {FALSE}, status : {200}, body : OkBodies]

ResponseOk(resp) == resp.status >= 200 /\ resp.status <= 299

(***************************************************************************)
(* The Pokemon data source.  comparePokemon never looks at the status of   *)
(* a response, only at its body: r.json() must parse, and the data must    *)
(* have a types array.                                                     *)
(***************************************************************************)
PokemonPairs == {<<"Pikachu", "mew">>}

PokemonNames == {"Pikachu"}

toLowerCase(name) ==
  CASE name = "Pikachu" -> "pikachu"
    [] OTHER -> name

PokemonUrl(name) == "https://pokeapi.co/api/v2/pokemon/" \o toLowerCase(name)

PokemonData(raw, types) ==
  [raw |-> raw, json |-> Some([height |-> 4, weight |-> 60, types |-> types])]

PokeBodies ==
  {NotJson("Not Found"),
   PokemonData("{\"height\":4,\"weight\":60}", None),
   PokemonData("{\"height\":4,\"weight\":60,\"types\":[{\"type\":{\"name\":\"electric\"}}]}",
               Some(<<"electric">>))}

PokeResponses ==
  {NetworkFailure} \cup [net : {FALSE}, status : {200, 404}, body : PokeBodies]

(***************************************************************************)
(* Errors and the results of async functions.  origin is the number of    *)
(* the Provider Client call of the request that raised the error (0: none) *)
(* and stands for the identity of the Error object.                        *)
(***************************************************************************)
Error(name, message, origin) == [name |-> name, message |-> message, origin |-> origin]

NoError == Error("", "", 0)

Throw(e) == [threw |-> TRUE, error |-> e, content |-> "", usage |-> None]

Return(content, usage) == [threw |-> FALSE, error |-> NoError, content |-> content, usage |-> usage]

OPENAI_URL == "https://api.openai.com/v1/chat/completions"

DEEPSEEK_URL == "https://api.deepseek.com/v1/chat/completions"

(* The text of line 85 (in Chinese: the OpenAI account balance is          *)
(* insufficient, top up and retry), written in ASCII.                      *)
QUOTA_MESSAGE == "OpenAI account balance insufficient, top up and retry"

SyntaxError(n) == Error("SyntaxError", "Unexpected token in JSON", n)

FetchFailed(n) == Error("TypeError", "fetch failed", n)

(***************************************************************************)
(* data.choices[0]?.message.content || 'No response', with data.usage.     *)
(* Indexing an absent choices array and reading .content of an absent      *)
(* message throw a TypeError; ?. only guards an absent first choice.       *)
(***************************************************************************)
ExtractContent(data, n) ==
  IF ~IsSome(data.choices)
  THEN Throw(Error("TypeError", "Cannot read properties of undefined (reading '0')", n))
  ELSE LET choices == Get(data.choices) IN
    IF Len(choices) = 0
    THEN Return("No response", data.usage)
    ELSE IF ~IsSome(choices[1].message)
    THEN Throw(Error("TypeError", "Cannot read properties of undefined (reading 'content')", n))
    ELSE Return(Or(Get(choices[1].message).content, "No response"), data.usage)

(***************************************************************************)
(* A Provider Client up to its `await fetch`: either it throws (result) or *)
(* it issues the POST (request) and is suspended.  n numbers the call.     *)
(***************************************************************************)
Post(url, apiKey, model, messages, n) ==
  [request |-> Some([url |-> url,
                     authorization |-> "Bearer " \o apiKey,
                     model |-> model,
                     messages |-> messages,
                     temperature |-> "0.7",
                     call |-> n]),
   result |-> None]

Fail(e) == [request |-> None, result |-> Some(Throw(e))]

(* callOpenAI without the check of line 65 *)
callOpenAI_unchecked(messages, apiKey, model, n) ==
  Post(OPENAI_URL, apiKey, Default(model, "gpt-3.5-turbo"), messages, n)

callOpenAI(messages, apiKey, model, n) ==
  IF ~Truthy(apiKey)
  THEN Fail(Error("Error", "OpenAI API key is not configured", n))
  ELSE Post(OPENAI_URL, apiKey, Default(model, "gpt-3.5-turbo"), messages, n)

(* callDeepSeek without the check of line 108 *)
callDeepSeek_unchecked(messages, apiKey, model, n) ==
  Post(DEEPSEEK_URL, apiKey, Default(model, "deepseek-chat"), messages, n)

callDeepSeek(messages, apiKey, model, n) ==
  IF ~Truthy(apiKey)
  THEN Fail(Error("Error", "DeepSeek API key is not configured", n))
  ELSE Post(DEEPSEEK_URL, apiKey, Default(model, "deepseek-chat"), messages, n)

(***************************************************************************)
(* A Provider Client from the arrival of the response on.                  *)
(***************************************************************************)
(* callOpenAI without the quota test of lines 84-86 *)
callOpenAI_response_generic(resp, n) ==
  IF resp.net
  THEN Throw(FetchFailed(n))
  ELSE IF ~ResponseOk(resp)
  THEN IF ~IsSome(resp.body.json)
       THEN Throw(SyntaxError(n))
       ELSE Throw(Error("Error",
              "OpenAI API error: " \o ToString(resp.status) \o " " \o resp.body.raw, n))
  ELSE IF ~IsSome(resp.body.json)
  THEN Throw(SyntaxError(n))
  ELSE ExtractContent(Get(resp.body.json), n)

callOpenAI_response(resp, n) ==
  IF resp.net
  THEN Throw(FetchFailed(n))
  ELSE IF ~ResponseOk(resp)
  THEN IF ~IsSome(resp.body.json)
       THEN Throw(SyntaxError(n))
       ELSE LET errorData == Get(resp.body.json) IN
         IF IsSome(errorData.error) /\ Get(errorData.error).type = "insufficient_quota"
         THEN Throw(Error("Error", QUOTA_MESSAGE, n))
         ELSE Throw(Error("Error",
                "OpenAI API error: " \o ToString(resp.status) \o " " \o resp.body.raw, n))
  ELSE IF ~IsSome(resp.body.json)
  THEN Throw(SyntaxError(n))
  ELSE ExtractContent(Get(resp.body.json), n)

callDeepSeek_response(resp, n) ==
  IF resp.net
  THEN Throw(FetchFailed(n))
  ELSE IF ~ResponseOk(resp)
  THEN Throw(Error("Error",
         "DeepSeek API error: " \o ToString(resp.status) \o " " \o resp.body.raw, n))
  ELSE IF ~IsSome(resp.body.json)
  THEN Throw(SyntaxError(n))
  ELSE ExtractContent(Get(resp.body.json), n)

(***************************************************************************)
(* The state of one request.                                               *)
(*   pc       "idle", "await" (suspended in a client's fetch), "join"      *)
(*            (suspended in Promise.all) or "done"                         *)
(*   kind     the resolver; provider, model: its locals after defaults     *)
(*   phase    which call is pending: "direct", "primary" or "fallback"     *)
(*   calls    the Provider Client calls made, each with the response it    *)
(*            received and its result                                      *)
(*   http     the outbound HTTP requests issued to the LLM providers       *)
(*   poke     the fetches issued to the Pokemon data source, each with the *)
(*            response it received;  arrived: the order they completed in  *)
(*   coord    how callAI settled;  out: how the resolver settled           *)
(***************************************************************************)
IdleReq ==
  [pc |-> "idle", kind |-> "", prompt |-> "", provider |-> Undefined, model |-> Undefined,
   messages |-> <<>>, phase |-> "", calls |-> <<>>, http |-> <<>>,
   poke |-> <<>>, arrived |-> <<>>,
   coord |-> None, out |-> None]

Last(s) == s[Len(s)]

UserMessage(prompt) == <<[role |-> "user", content |-> prompt]>>

(* Calls a client: logs the call and, if it got as far, the request sent. *)
Invoke(q, client, messages, apiKey, model, phase) ==
  LET n == Len(q.calls) + 1
      begun == IF client = "deepseek"
               THEN callDeepSeek(messages, apiKey, model, n)
               ELSE callOpenAI(messages, apiKey, model, n)
  IN [q EXCEPT
       !.calls = Append(@, [client |-> client, messages |-> messages, apiKey |-> apiKey,
                            model |-> model, response |-> None,
                            result |-> begun.result]),
       !.http = @ \o begun.request,
       !.phase = phase,
       !.pc = IF IsSome(begun.request) THEN "await" ELSE @]

(* The pending client call resumes with the response. *)
Resume(q, resp) ==
  LET n == Len(q.calls)
      result == IF q.calls[n].client = "deepseek"
                THEN callDeepSeek_response(resp, n)
                ELSE callOpenAI_response(resp, n)
  IN [q EXCEPT !.calls[n].response = Some(resp), !.calls[n].result = Some(result)]

LastResult(q) == Get(Last(q.calls).result)

(* the total read from the wrong field *)
Usage_misread(usage) ==
  IF IsSome(usage)
  THEN [promptTokens |-> Get(usage).prompt_tokens,
        completionTokens |-> Get(usage).completion_tokens,
        totalTokens |-> Get(usage).prompt_tokens]
  ELSE [promptTokens |-> 0, completionTokens |-> 0, totalTokens |-> 0]

Usage(usage) ==
  IF IsSome(usage)
  THEN [promptTokens |-> Get(usage).prompt_tokens,
        completionTokens |-> Get(usage).completion_tokens,
        totalTokens |-> Get(usage).total_tokens]
  ELSE [promptTokens |-> 0, completionTokens |-> 0, totalTokens |-> 0]

AIResponse(content, model, provider, usage) ==
  [ok |-> TRUE, content |-> content, model |-> model, provider |-> provider,
   usage |-> usage, message |-> ""]

FieldError(message) ==
  [ok |-> FALSE, content |-> "", model |-> "", provider |-> "",
   usage |-> Usage(None), message |-> message]

Settle(q, out) == [q EXCEPT !.pc = "done", !.out = Some(out)]

(***************************************************************************)
(* The resolvers' own code after their client or Coordinator call.         *)
(***************************************************************************)
(* chatGPT rethrowing the client's error as it is *)
chatGPT_settle_unwrapped(q) ==
  LET result == LastResult(q) IN
  IF result.threw
  THEN Settle(q, FieldError(result.error.message))
  ELSE Settle(q, AIResponse(result.content, q.model, "openai", Usage(result.usage)))

chatGPT_settle(q) ==
  LET result == LastResult(q) IN
  IF result.threw
  THEN Settle(q, FieldError("ChatGPT error: " \o result.error.message))
  ELSE Settle(q, AIResponse(result.content, q.model, "openai", Usage(result.usage)))

deepseek_settle(q) ==
  LET result == LastResult(q) IN
  IF result.threw
  THEN Settle(q, FieldError("DeepSeek error: " \o result.error.message))
  ELSE Settle(q, AIResponse(result.content, q.model, "deepseek", Usage(result.usage)))

askAI_settle(q) ==
  LET result == Get(q.coord) IN
  IF result.threw
  THEN Settle(q, FieldError("AI query failed: " \o result.error.message))
  ELSE Settle(q, AIResponse(result.content,
                            Or(q.model, IF q.provider = "deepseek"
                                        THEN "deepseek-chat" ELSE "gpt-3.5-turbo"),
                            result.provider,
                            Usage(result.usage)))

(* A resolver of type String!: the text alone. *)
Text(content) == AIResponse(content, "", "", Usage(None))

(* pokemonInfo and comparePokemon have no try/catch: what callAI throws is *)
(* the field error.                                                        *)
pokemonInfo_settle(q) ==
  LET result == Get(q.coord) IN
  IF result.threw
  THEN Settle(q, FieldError(result.error.message))
  ELSE Settle(q, Text(result.content))

comparePokemon_settle(q) ==
  LET result == Get(q.coord) IN
  IF result.threw
  THEN Settle(q, FieldError(result.error.message))
  ELSE Settle(q, Text(result.content))

(***************************************************************************)
(* The Coordinator callAI.  It settles by returning {...result, provider}  *)
(* or by throwing; control then returns to the calling resolver.           *)
(***************************************************************************)
callAI_settle(q, result, provider) ==
  LET q1 == [q EXCEPT !.coord = Some([threw |-> result.threw,
                                      error |-> result.error,
                                      content |-> result.content,
                                      usage |-> result.usage,
                                      provider |-> provider])]
  IN CASE q.kind = "pokemonInfo" -> pokemonInfo_settle(q1)
       [] q.kind = "comparePokemon" -> comparePokemon_settle(q1)
       [] OTHER -> askAI_settle(q1)

(* the fallback retried once more when it fails *)
callAI_fallback_response_retry(q) ==
  LET fallbackResult == LastResult(q) IN
  IF fallbackResult.threw
  THEN IF Len(q.calls) < 3
       THEN Invoke(q, Last(q.calls).client, q.messages, Last(q.calls).apiKey,
                   Last(q.calls).model, q.phase)
       ELSE callAI_settle(q, fallbackResult, "")
  ELSE IF q.phase = "fallback_deepseek"
  THEN callAI_settle(q, fallbackResult, "deepseek")
  ELSE callAI_settle(q, fallbackResult, "openai")

(* the fallback's result annotated with the requested provider *)
callAI_fallback_response_requested(q) ==
  LET fallbackResult == LastResult(q) IN
  IF fallbackResult.threw
  THEN callAI_settle(q, fallbackResult, "")
  ELSE callAI_settle(q, fallbackResult, q.provider)

(* a failed fallback answered with the error of the primary call *)
callAI_fallback_response_primary(q) ==
  LET fallbackResult == LastResult(q) IN
  IF fallbackResult.threw
  THEN callAI_settle(q, Get(q.calls[1].result), "")
  ELSE IF q.phase = "fallback_deepseek"
  THEN callAI_settle(q, fallbackResult, "deepseek")
  ELSE callAI_settle(q, fallbackResult, "openai")

(* lines 185-188 and 196-199: the fallback call has settled *)
callAI_fallback_response(q) ==
  LET fallbackResult == LastResult(q) IN
  IF fallbackResult.threw
  THEN callAI_settle(q, fallbackResult, "")
  ELSE IF q.phase = "fallback_deepseek"
  THEN callAI_settle(q, fallbackResult, "deepseek")
  ELSE callAI_settle(q, fallbackResult, "openai")

(* the fallback called with the caller's model override *)
callAI_catch_override(q, error) ==
  IF q.provider = "openai" /\ Truthy(env.DEEPSEEK_API_KEY)
  THEN LET q2 == Invoke(q, "deepseek", q.messages, env.DEEPSEEK_API_KEY,
                        Or(q.model, "deepseek-chat"), "fallback_deepseek")
       IN IF q2.pc = "await" THEN q2 ELSE callAI_fallback_response(q2)
  ELSE IF q.provider = "deepseek" /\ Truthy(env.OPENAI_API_KEY)
  THEN LET q2 == Invoke(q, "openai", q.messages, env.OPENAI_API_KEY,
                        Or(q.model, "gpt-3.5-turbo"), "fallback_openai")
       IN IF q2.pc = "await" THEN q2 ELSE callAI_fallback_response(q2)
  ELSE callAI_settle(q, Throw(error), "")

(* the fallback attempted whether or not its credential is configured *)
callAI_catch_always(q, error) ==
  IF q.provider = "openai"
  THEN LET q2 == Invoke(q, "deepseek", q.messages, env.DEEPSEEK_API_KEY,
                        "deepseek-chat", "fallback_deepseek")
       IN IF q2.pc = "await" THEN q2 ELSE callAI_fallback_response(q2)
  ELSE IF q.provider = "deepseek"
  THEN LET q2 == Invoke(q, "openai", q.messages, env.OPENAI_API_KEY,
                        "gpt-3.5-turbo", "fallback_openai")
       IN IF q2.pc = "await" THEN q2 ELSE callAI_fallback_response(q2)
  ELSE callAI_settle(q, Throw(error), "")

(* the first branch taken for every provider that is not deepseek *)
callAI_catch_else(q, error) ==
  IF q.provider # "deepseek" /\ Truthy(env.DEEPSEEK_API_KEY)
  THEN LET q2 == Invoke(q, "deepseek", q.messages, env.DEEPSEEK_API_KEY,
                        "deepseek-chat", "fallback_deepseek")
       IN IF q2.pc = "await" THEN q2 ELSE callAI_fallback_response(q2)
  ELSE IF q.provider = "deepseek" /\ Truthy(env.OPENAI_API_KEY)
  THEN LET q2 == Invoke(q, "openai", q.messages, env.OPENAI_API_KEY,
                        "gpt-3.5-turbo", "fallback_openai")
       IN IF q2.pc = "await" THEN q2 ELSE callAI_fallback_response(q2)
  ELSE callAI_settle(q, Throw(error), "")

(* the error swallowed when no fallback is possible: callAI never settles *)
callAI_catch_swallow(q, error) ==
  IF q.provider = "openai" /\ Truthy(env.DEEPSEEK_API_KEY)
  THEN LET q2 == Invoke(q, "deepseek", q.messages, env.DEEPSEEK_API_KEY,
                        "deepseek-chat", "fallback_deepseek")
       IN IF q2.pc = "await" THEN q2 ELSE callAI_fallback_response(q2)
  ELSE IF q.provider = "deepseek" /\ Truthy(env.OPENAI_API_KEY)
  THEN LET q2 == Invoke(q, "openai", q.messages, env.OPENAI_API_KEY,
                        "gpt-3.5-turbo", "fallback_openai")
       IN IF q2.pc = "await" THEN q2 ELSE callAI_fallback_response(q2)
  ELSE [q EXCEPT !.pc = "running"]

(* lines 174-203: the catch block *)
callAI_catch(q, error) ==
  IF q.provider = "openai" /\ Truthy(env.DEEPSEEK_API_KEY)
  THEN LET q2 == Invoke(q, "deepseek", q.messages, env.DEEPSEEK_API_KEY,
                        "deepseek-chat", "fallback_deepseek")
       IN IF q2.pc = "await" THEN q2 ELSE callAI_fallback_response(q2)
  ELSE IF q.provider = "deepseek" /\ Truthy(env.OPENAI_API_KEY)
  THEN LET q2 == Invoke(q, "openai", q.messages, env.OPENAI_API_KEY,
                        "gpt-3.5-turbo", "fallback_openai")
       IN IF q2.pc = "await" THEN q2 ELSE callAI_fallback_response(q2)
  ELSE callAI_settle(q, Throw(error), "")

(* lines 170-173: the primary call has settled *)
callAI_response(q) ==
  LET result == LastResult(q) IN
  IF result.threw
  THEN callAI_catch(q, result.error)
  ELSE callAI_settle(q, result, q.provider)

(* DEFAULT_MODEL applied on both paths *)
callAI_default_everywhere(q) ==
  LET q1 == IF q.provider = "deepseek"
            THEN Invoke(q, "deepseek", q.messages, env.DEEPSEEK_API_KEY,
                        Or(q.model, Or(env.DEFAULT_MODEL, "deepseek-chat")), "primary")
            ELSE Invoke(q, "openai", q.messages, env.OPENAI_API_KEY,
                        Or(q.model, Or(env.DEFAULT_MODEL, "deepseek-chat")), "primary")
  IN IF q1.pc = "await" THEN q1 ELSE callAI_response(q1)

(* lines 153-168: the primary call *)
callAI(q) ==
  LET q1 == IF q.provider = "deepseek"
            THEN Invoke(q, "deepseek", q.messages, env.DEEPSEEK_API_KEY,
                        Or(q.model, "deepseek-chat"), "primary")
            ELSE Invoke(q, "openai", q.messages, env.OPENAI_API_KEY,
                        Or(q.model, Or(env.DEFAULT_MODEL, "deepseek-chat")), "primary")
  IN IF q1.pc = "await" THEN q1 ELSE callAI_response(q1)

(***************************************************************************)
(* The messages of the Pokemon queries (lines 361-370 and 383-398; the     *)
(* Chinese instructions are written in ASCII).                             *)
(***************************************************************************)
RECURSIVE JoinNames(_)
JoinNames(names) ==
  IF Len(names) = 0 THEN ""
  ELSE IF Len(names) = 1 THEN names[1]
  ELSE names[1] \o ", " \o JoinNames(Tail(names))

PokemonInfoMessages(name) ==
  <<[role |-> "system", content |-> "You are a Pokemon expert; introduce Pokemon briefly and with fun."],
    [role |-> "user", content |-> "Introduce the traits, abilities and trivia of " \o name \o "."]>>

Facts(name, data) ==
  name \o ": height " \o ToString(data.height) \o ", weight " \o ToString(data.weight)
       \o ", types " \o JoinNames(Get(data.types))

ComparePokemonMessages(pokemon1, pokemon2, data1, data2) ==
  <<[role |-> "system", content |-> "You are a Pokemon expert; compare the abilities of two Pokemon."],
    [role |-> "user", content |-> "Compare " \o pokemon1 \o " and " \o pokemon2 \o ". "
                                  \o Facts(pokemon1, data1) \o ". " \o Facts(pokemon2, data2)
                                  \o ". Analyse their strengths and battle traits."]>>

(***************************************************************************)
(* comparePokemon's Promise.all (lines 378-381) and what follows it.  A    *)
(* fetch promise is rejected by a network failure and by a body that is    *)
(* not JSON; Promise.all rejects with the first rejection and resolves     *)
(* when both promises have resolved.                                       *)
(***************************************************************************)
Rejected(fetched) ==
  /\ IsSome(fetched.response)
  /\ \/ Get(fetched.response).net
     \/ ~IsSome(Get(fetched.response).body.json)

Resolved(fetched) == IsSome(fetched.response) /\ ~Rejected(fetched)

RejectionMessage(fetched) ==
  IF Get(fetched.response).net THEN "fetch failed" ELSE "Unexpected token in JSON"

DataOf(fetched) == Get(Get(fetched.response).body.json)

(* lines 383-402: both data are there *)
comparePokemon_compare(q) ==
  LET data1 == DataOf(q.poke[1])
      data2 == DataOf(q.poke[2])
  IN IF ~IsSome(data1.types) \/ ~IsSome(data2.types)
     THEN Settle(q, FieldError("Cannot read properties of undefined (reading 'map')"))
     ELSE callAI([q EXCEPT !.messages =
                    ComparePokemonMessages(q.poke[1].name, q.poke[2].name, data1, data2)])

(* the comparison made as soon as one fetch has resolved, on its data *)
comparePokemon_join_race(q) ==
  LET i == Last(q.arrived) IN
  IF Rejected(q.poke[i])
  THEN Settle(q, FieldError(RejectionMessage(q.poke[i])))
  ELSE IF ~IsSome(DataOf(q.poke[i]).types)
  THEN Settle(q, FieldError("Cannot read properties of undefined (reading 'map')"))
  ELSE callAI([q EXCEPT !.messages =
                 ComparePokemonMessages(q.poke[1].name, q.poke[2].name,
                                        DataOf(q.poke[i]), DataOf(q.poke[i]))])

(* a rejected fetch replaced by the data of the other one *)
comparePokemon_join_partial(q) ==
  IF \A i \in 1..2 : IsSome(q.poke[i].response)
  THEN IF \E i \in 1..2 : Resolved(q.poke[i])
       THEN LET i == CHOOSE i \in 1..2 : Resolved(q.poke[i]) IN
            IF ~IsSome(DataOf(q.poke[i]).types)
            THEN Settle(q, FieldError("Cannot read properties of undefined (reading 'map')"))
            ELSE callAI([q EXCEPT !.messages =
                           ComparePokemonMessages(q.poke[1].name, q.poke[2].name,
                                                  DataOf(q.poke[i]), DataOf(q.poke[i]))])
       ELSE Settle(q, FieldError(RejectionMessage(q.poke[1])))
  ELSE q

(* line 378: a fetch promise has settled while Promise.all is pending *)
comparePokemon_join(q) ==
  IF Rejected(q.poke[Last(q.arrived)])
  THEN Settle(q, FieldError(RejectionMessage(q.poke[Last(q.arrived)])))
  ELSE IF \A i \in 1..2 : Resolved(q.poke[i])
  THEN comparePokemon_compare(q)
  ELSE q

(***************************************************************************)
(* Actions.                                                                *)
(***************************************************************************)
Init ==
  /\ env \in Envs
  /\ reqs = {1}
  /\ rq = [r \in AllReqs |-> IdleReq]

chatGPT(r, prompt, model) ==
  /\ rq[r].pc = "idle"
  /\ LET q == [IdleReq EXCEPT !.kind = "chatGPT", !.prompt = prompt,
                              !.model = Default(model, "gpt-3.5-turbo"),
                              !.messages = UserMessage(prompt)]
         q1 == Invoke(q, "openai", q.messages, env.OPENAI_API_KEY, q.model, "direct")
     IN rq' = [rq EXCEPT ![r] = IF q1.pc = "await" THEN q1 ELSE chatGPT_settle(q1)]
  /\ UNCHANGED <<env, reqs>>

deepseek(r, prompt, model) ==
  /\ rq[r].pc = "idle"
  /\ LET q == [IdleReq EXCEPT !.kind = "deepseek", !.prompt = prompt,
                              !.model = Default(model, "deepseek-chat"),
                              !.messages = UserMessage(prompt)]
         q1 == Invoke(q, "deepseek", q.messages, env.DEEPSEEK_API_KEY, q.model, "direct")
     IN rq' = [rq EXCEPT ![r] = IF q1.pc = "await" THEN q1 ELSE deepseek_settle(q1)]
  /\ UNCHANGED <<env, reqs>>

askAI(r, prompt, provider, model) ==
  /\ rq[r].pc = "idle"
  /\ LET q == [IdleReq EXCEPT !.kind = "askAI", !.prompt = prompt,
                              !.provider = Default(provider, "openai"),
                              !.model = model,
                              !.messages = UserMessage(prompt)]
     IN rq' = [rq EXCEPT ![r] = callAI(q)]
  /\ UNCHANGED <<env, reqs>>

pokemonInfo(r, name, provider) ==
  /\ rq[r].pc = "idle"
  /\ LET q == [IdleReq EXCEPT !.kind = "pokemonInfo", !.prompt = name,
                              !.provider = Default(provider, "openai"),
                              !.messages = PokemonInfoMessages(name)]
     IN rq' = [rq EXCEPT ![r] = callAI(q)]
  /\ UNCHANGED <<env, reqs>>

comparePokemon(r, pokemon1, pokemon2, provider) ==
  /\ rq[r].pc = "idle"
  /\ rq' = [rq EXCEPT ![r] =
       [IdleReq EXCEPT !.kind = "comparePokemon", !.prompt = pokemon1,
                       !.provider = Default(provider, "openai"),
                       !.poke = <<[name |-> pokemon1, url |-> PokemonUrl(pokemon1),
                                   response |-> None],
                                  [name |-> pokemon2, url |-> PokemonUrl(pokemon2),
                                   response |-> None]>>,
                       !.pc = "join"]]
  /\ UNCHANGED <<env, reqs>>

(* The response of a fetch to the data source arrives.  When Promise.all   *)
(* has already rejected, nobody is waiting for it.                         *)
PokemonFetchReturn(r, i, resp) ==
  /\ i \in 1..Len(rq[r].poke)
  /\ ~IsSome(rq[r].poke[i].response)
  /\ LET q == [rq[r] EXCEPT !.poke[i].response = Some(resp), !.arrived = Append(@, i)]
     IN rq' = [rq EXCEPT ![r] = IF q.pc = "join" THEN comparePokemon_join(q) ELSE q]
  /\ UNCHANGED <<env, reqs>>

(* one response slot shared by all requests: every suspended client call   *)
(* resumes with the response that arrived                                  *)
FetchReturn_shared(r, resp) ==
  /\ rq[r].pc = "await"
  /\ rq' = [s \in AllReqs |->
       IF rq[s].pc = "await"
       THEN LET q == Resume([rq[s] EXCEPT !.pc = "running"], resp) IN
            CASE q.phase = "primary" -> callAI_response(q)
              [] q.phase \in {"fallback_deepseek", "fallback_openai"} -> callAI_fallback_response(q)
              [] q.kind = "chatGPT" -> chatGPT_settle(q)
              [] OTHER -> deepseek_settle(q)
       ELSE rq[s]]
  /\ UNCHANGED <<env, reqs>>

(* The response of the pending fetch arrives; the request continues from  *)
(* its await to the next fetch or to its end.                              *)
FetchReturn(r, resp) ==
  /\ rq[r].pc = "await"
  /\ LET q == Resume([rq[r] EXCEPT !.pc = "running"], resp)
     IN rq' = [rq EXCEPT ![r] =
          CASE q.phase = "primary" -> callAI_response(q)
            [] q.phase \in {"fallback_deepseek", "fallback_openai"} -> callAI_fallback_response(q)
            [] q.kind = "chatGPT" -> chatGPT_settle(q)
            [] OTHER -> deepseek_settle(q)]
  /\ UNCHANGED <<env, reqs>>

Next ==
  \E r \in reqs :
    \/ \E prompt \in Prompts, model \in ModelArgs : chatGPT(r, prompt, model)
    \/ \E prompt \in Prompts, model \in ModelArgs : deepseek(r, prompt, model)
    \/ \E prompt \in Prompts, provider \in ProviderArgs, model \in ModelArgs :
         askAI(r, prompt, provider, model)
    \/ \E name \in PokemonNames, provider \in ProviderArgs : pokemonInfo(r, name, provider)
    \/ \E pair \in PokemonPairs, provider \in ProviderArgs :
         comparePokemon(r, pair[1], pair[2], provider)
    \/ \E i \in 1..2, resp \in PokeResponses : PokemonFetchReturn(r, i, resp)
    \/ \E resp \in Responses : FetchReturn(r, resp)

Spec == Init /\ [][Next]_vars

(***************************************************************************)
(* Every outbound HTTP call eventually returns a response or a failure.    *)
(***************************************************************************)
FairSpec ==
  /\ Spec
  /\ \A r \in AllReqs : WF_vars(\E resp \in Responses : FetchReturn(r, resp))
  /\ \A r \in AllReqs :
       WF_vars(\E i \in 1..2, resp \in PokeResponses : PokemonFetchReturn(r, i, resp))

(***************************************************************************)
(* Two requests served concurrently, their awaits interleaved in every     *)
(* way, on a smaller choice of configurations, arguments and responses.    *)
(***************************************************************************)
ConcEnvs ==
  [OPENAI_API_KEY : {Undefined, "sk-openai"},
   DEEPSEEK_API_KEY : {"sk-deepseek"},
   DEFAULT_MODEL : {Undefined}]

ConcResponses ==
  {NetworkFailure,
   [net |-> FALSE, status |-> 200,
    body |-> Json(<<"\"choices\":[{\"message\":{\"content\":\"hello\"}}]">>, None,
                  Some(<<Choice(Message("hello"))>>), None)]}

ConcPokeResponses ==
  {NetworkFailure,
   [net |-> FALSE, status |-> 200,
    body |-> PokemonData("{\"height\":4,\"weight\":60,\"types\":[{\"type\":{\"name\":\"electric\"}}]}",
                         Some(<<"electric">>))]}

ConcProviderArgs == {Undefined, "deepseek"}

InitConc ==
  /\ env \in ConcEnvs
  /\ reqs = AllReqs
  /\ rq = [r \in AllReqs |-> IdleReq]

NextConc ==
  \E r \in reqs :
    \/ \E prompt \in Prompts : chatGPT(r, prompt, Undefined)
    \/ \E prompt \in Prompts : deepseek(r, prompt, Undefined)
    \/ \E prompt \in Prompts, provider \in ConcProviderArgs :
         askAI(r, prompt, provider, Undefined)
    \/ \E name \in PokemonNames, provider \in ConcProviderArgs :
         pokemonInfo(r, name, provider)
    \/ \E pair \in PokemonPairs, provider \in ConcProviderArgs :
         comparePokemon(r, pair[1], pair[2], provider)
    \/ \E i \in 1..2, resp \in ConcPokeResponses : PokemonFetchReturn(r, i, resp)
    \/ \E resp \in ConcResponses : FetchReturn(r, resp)

SpecConc == InitConc /\ [][NextConc]_vars

(***************************************************************************)
(* Properties.                                                             *)
(***************************************************************************)
Coordinated == {r \in reqs : rq[r].kind = "askAI"}

Direct == {r \in reqs : rq[r].kind \in {"chatGPT", "deepseek"}}

Failed(call) == IsSome(call.result) /\ Get(call.result).threw

Succeeded(call) == IsSome(call.result) /\ ~Get(call.result).threw

Alternate(provider) == IF provider = "openai" THEN "deepseek" ELSE "openai"

KeyOf(provider) ==
  IF provider = "deepseek" THEN env.DEEPSEEK_API_KEY ELSE env.OPENAI_API_KEY

UrlOf(provider) == IF provider = "deepseek" THEN DEEPSEEK_URL ELSE OPENAI_URL

MissingKeyMessage(provider) ==
  IF provider = "deepseek"
  THEN "DeepSeek API key is not configured"
  ELSE "OpenAI API key is not configured"

RequestsOf(q, i) == {j \in 1..Len(q.http) : q.http[j].call = i}

(* C1: one callAI invocation makes at most two Provider Client calls, at   *)
(* most one to each client, the first to the preferred provider; once the  *)
(* fallback call has failed the invocation is over (no further call).      *)
C1_AtMostTwoClientCalls ==
  \A r \in Coordinated :
    LET q == rq[r] IN
    /\ Len(q.calls) \in {1, 2}
    /\ q.provider \in {"openai", "deepseek"} => q.calls[1].client = q.provider
    /\ Len(q.calls) = 2 => q.calls[2].client = Alternate(q.calls[1].client)
    /\ (Len(q.calls) = 2 /\ Failed(q.calls[2])) =>
         /\ q.pc = "done"
         /\ IsSome(q.coord) /\ Get(q.coord).threw

C1_Witness ==
  \E r \in Coordinated :
    /\ Len(rq[r].calls) = 2
    /\ Failed(rq[r].calls[2])
    /\ IsSome(rq[r].calls[2].response)
    /\ rq[r].pc = "done"

(* C2: whenever the primary call of callAI has failed, for whatever        *)
(* reason: preferred openai with a DeepSeek credential gives exactly one   *)
(* retry, to the DeepSeek client with model "deepseek-chat"; preferred     *)
(* deepseek with an OpenAI credential gives exactly one retry, to the      *)
(* OpenAI client with model "gpt-3.5-turbo"; the retry carries the         *)
(* messages of the primary call, whatever the override and DEFAULT_MODEL.  *)
C2_RetryOnAlternateWithItsDefault ==
  \A r \in Coordinated :
    LET q == rq[r] IN
    (/\ Failed(q.calls[1])
     /\ q.provider \in {"openai", "deepseek"}
     /\ Truthy(KeyOf(Alternate(q.provider)))) =>
       /\ Len(q.calls) = 2
       /\ q.calls[2].client = Alternate(q.provider)
       /\ q.calls[2].model = (IF q.provider = "openai" THEN "deepseek-chat" ELSE "gpt-3.5-turbo")
       /\ q.calls[2].messages = q.calls[1].messages
       /\ Cardinality(RequestsOf(q, 2)) = 1
       /\ \A j \in RequestsOf(q, 2) :
            /\ q.http[j].url = UrlOf(Alternate(q.provider))
            /\ q.http[j].model = q.calls[2].model
            /\ q.http[j].messages = q.calls[1].messages

C2_Witness ==
  \E r \in Coordinated :
    LET q == rq[r] IN
    /\ q.provider = "deepseek" /\ q.model = "gpt-4" /\ env.DEFAULT_MODEL = "gpt-4o"
    /\ Failed(q.calls[1])
    /\ Get(q.calls[1].result).error.name = "SyntaxError"
    /\ Len(q.calls) = 2
    /\ q.calls[2].model = "gpt-3.5-turbo"

(* C3: if the primary call of callAI fails and the alternate provider's    *)
(* credential is not configured, callAI makes no second client call and    *)
(* throws the very error the primary call raised.                          *)
C3_NoCredentialPropagatesPrimaryError ==
  \A r \in Coordinated :
    LET q == rq[r] IN
    (/\ Failed(q.calls[1])
     /\ q.provider \in {"openai", "deepseek"}
     /\ ~Truthy(KeyOf(Alternate(q.provider)))) =>
       /\ Len(q.calls) = 1
       /\ q.pc = "done"
       /\ IsSome(q.coord)
       /\ Get(q.coord).threw
       /\ Get(q.coord).error = Get(q.calls[1].result).error

C3_Witness ==
  \E r \in Coordinated :
    LET q == rq[r] IN
    /\ q.provider = "deepseek"
    /\ env.OPENAI_API_KEY = ""
    /\ IsSome(q.calls[1].response)
    /\ Get(q.calls[1].response).status = 401
    /\ Failed(q.calls[1])
    /\ q.pc = "done"

(* C4: on every successful return of callAI the provider field names the   *)
(* provider whose client call produced the content: the preferred one when *)
(* the primary call succeeded, the alternate one when the fallback did.    *)
C4_ProviderNamesAnsweringClient ==
  \A r \in Coordinated :
    LET q == rq[r] IN
    (IsSome(q.coord) /\ ~Get(q.coord).threw) =>
      /\ Succeeded(Last(q.calls))
      /\ Get(q.coord).content = Get(Last(q.calls).result).content
      /\ Get(q.coord).provider = Last(q.calls).client
      /\ Len(q.calls) = 1 => Get(q.coord).provider = q.provider
      /\ Len(q.calls) = 2 => Get(q.coord).provider = Alternate(q.calls[1].client)

(* C5: a client call whose API key is empty or absent fails with the       *)
(* missing-credential error of its client without issuing an HTTP request; *)
(* every HTTP request sent belongs to a call with a non-empty key.         *)
C5_NoRequestWithoutKey ==
  \A r \in reqs :
    LET q == rq[r] IN
    /\ \A i \in 1..Len(q.calls) :
         ~Truthy(q.calls[i].apiKey) =>
           /\ Failed(q.calls[i])
           /\ Get(q.calls[i].result).error.message = MissingKeyMessage(q.calls[i].client)
           /\ RequestsOf(q, i) = {}
           /\ ~IsSome(q.calls[i].response)
    /\ \A j \in 1..Len(q.http) :
         /\ q.http[j].call \in 1..Len(q.calls)
         /\ Truthy(q.calls[q.http[j].call].apiKey)
         /\ q.http[j].url = UrlOf(q.calls[q.http[j].call].client)

C5_Witness ==
  /\ \E r \in Direct :
       /\ rq[r].kind = "chatGPT"
       /\ rq[r].calls[1].apiKey = ""
       /\ Failed(rq[r].calls[1])
       /\ rq[r].http = <<>>
  /\ env.DEEPSEEK_API_KEY = Undefined

(* C6: askAI with preferred provider P in {openai, deepseek}, P's          *)
(* credential absent and the alternate's present: the Coordinator calls    *)
(* the alternate client; when that call succeeds the query succeeds with   *)
(* provider = the alternate; no HTTP request goes to P's endpoint.         *)
C6_AbsentPrimaryCredentialFallsBack ==
  \A r \in Coordinated :
    LET q == rq[r] IN
    (/\ q.provider \in {"openai", "deepseek"}
     /\ ~Truthy(KeyOf(q.provider))
     /\ Truthy(KeyOf(Alternate(q.provider)))) =>
       /\ Len(q.calls) = 2
       /\ q.calls[2].client = Alternate(q.provider)
       /\ \A j \in 1..Len(q.http) : q.http[j].url # UrlOf(q.provider)
       /\ Succeeded(q.calls[2]) =>
            /\ q.pc = "done"
            /\ IsSome(q.out)
            /\ Get(q.out).ok
            /\ Get(q.out).provider = Alternate(q.provider)
            /\ Get(q.out).content = Get(q.calls[2].result).content

C6_Witness ==
  \E r \in Coordinated :
    LET q == rq[r] IN
    /\ q.provider = "openai"
    /\ env.OPENAI_API_KEY = Undefined
    /\ Truthy(env.DEEPSEEK_API_KEY)
    /\ q.pc = "done"
    /\ Get(q.out).ok
    /\ Get(q.out).provider = "deepseek"
    /\ Get(q.out).content = "hello"

(* C7: with both credentials absent the coordinated query fails with the   *)
(* missing-credential error of the preferred provider, and no HTTP request *)
(* to an LLM provider is made.                                             *)
C7_NoCredentialsIsCredentialError ==
  \A r \in Coordinated :
    LET q == rq[r] IN
    (/\ q.provider \in {"openai", "deepseek"}
     /\ ~Truthy(env.OPENAI_API_KEY)
     /\ ~Truthy(env.DEEPSEEK_API_KEY)) =>
       /\ q.pc = "done"
       /\ q.http = <<>>
       /\ IsSome(q.coord)
       /\ Get(q.coord).threw
       /\ Get(q.coord).error.message = MissingKeyMessage(q.provider)
       /\ IsSome(q.out)
       /\ ~Get(q.out).ok
       /\ Get(q.out).message = "AI query failed: " \o MissingKeyMessage(q.provider)

C7_Witness ==
  \E r \in Coordinated :
    /\ rq[r].provider = "deepseek"
    /\ env.OPENAI_API_KEY = Undefined
    /\ env.DEEPSEEK_API_KEY = Undefined
    /\ rq[r].pc = "done"
    /\ ~Get(rq[r].out).ok

(* C8: a 2xx response whose JSON body lacks choices[0].message.content (no *)
(* choices, empty choices, a first choice without message, a message       *)
(* without content or with empty content) makes the client return          *)
(* successfully with content "No response", so that no fallback follows.   *)
LacksContent(data) ==
  \/ ~IsSome(data.choices)
  \/ Len(Get(data.choices)) = 0
  \/ ~IsSome(Get(data.choices)[1].message)
  \/ ~Truthy(Get(Get(data.choices)[1].message).content)

C8_MalformedBodyIsNoResponse ==
  \A r \in reqs :
    LET q == rq[r] IN
    \A i \in 1..Len(q.calls) :
      (/\ IsSome(q.calls[i].response)
       /\ ~Get(q.calls[i].response).net
       /\ ResponseOk(Get(q.calls[i].response))
       /\ IsSome(Get(q.calls[i].response).body.json)
       /\ LacksContent(Get(Get(q.calls[i].response).body.json))) =>
         /\ Succeeded(q.calls[i])
         /\ Get(q.calls[i].result).content = "No response"
         /\ Len(q.calls) = i

(* C9: a direct query (chatGPT, deepseek) makes exactly one client call,   *)
(* to its own provider, never one to the other provider; a failure of the  *)
(* call surfaces as an error whose message is "ChatGPT error: " or         *)
(* "DeepSeek error: " followed by the message of the cause.                *)
C9_DirectQueryOneCallWrappedError ==
  \A r \in Direct :
    LET q == rq[r]
        own == IF q.kind = "chatGPT" THEN "openai" ELSE "deepseek"
        prefix == IF q.kind = "chatGPT" THEN "ChatGPT error: " ELSE "DeepSeek error: "
    IN
    /\ Len(q.calls) = 1
    /\ q.calls[1].client = own
    /\ \A j \in 1..Len(q.http) : q.http[j].url = UrlOf(own)
    /\ ~IsSome(q.coord)
    /\ Failed(q.calls[1]) =>
         /\ q.pc = "done"
         /\ IsSome(q.out)
         /\ ~Get(q.out).ok
         /\ Get(q.out).message = prefix \o Get(q.calls[1].result).error.message

C9_Witness ==
  \E r \in Direct :
    LET q == rq[r] IN
    /\ q.kind = "chatGPT"
    /\ Truthy(env.DEEPSEEK_API_KEY)
    /\ IsSome(q.calls[1].response)
    /\ Failed(q.calls[1])
    /\ q.pc = "done"
    /\ Get(q.out).message = "ChatGPT error: " \o QUOTA_MESSAGE

(* C10: the model echoed by a successful askAI response is the model the   *)
(* Coordinator passed in its primary call.                                 *)
C10_EchoedModelIsPrimaryModel ==
  \A r \in Coordinated :
    LET q == rq[r] IN
    (q.pc = "done" /\ IsSome(q.out) /\ Get(q.out).ok) =>
      Get(q.out).model = q.calls[1].model

(* The requests that go through the Coordinator. *)
ViaCoordinator ==
  {r \in reqs : rq[r].kind \in {"askAI", "pokemonInfo", "comparePokemon"}
                /\ Len(rq[r].calls) > 0}

(* C11: the model of callAI's primary call is the override when one is     *)
(* given (a non-empty string); otherwise "deepseek-chat" when the          *)
(* preferred provider is deepseek; otherwise DEFAULT_MODEL when it is set  *)
(* (non-empty), else "deepseek-chat".  DEFAULT_MODEL never influences the  *)
(* deepseek path.                                                          *)
C11_PrimaryModel ==
  \A r \in ViaCoordinator :
    LET q == rq[r]
        sent == q.calls[1].model
    IN
    /\ Truthy(q.model) => sent = q.model
    /\ (~Truthy(q.model) /\ q.provider = "deepseek") => sent = "deepseek-chat"
    /\ (~Truthy(q.model) /\ q.provider # "deepseek" /\ Truthy(env.DEFAULT_MODEL)) =>
         sent = env.DEFAULT_MODEL
    /\ (~Truthy(q.model) /\ q.provider # "deepseek" /\ ~Truthy(env.DEFAULT_MODEL)) =>
         sent = "deepseek-chat"
    /\ \A j \in RequestsOf(q, 1) : q.http[j].model = sent

C11_Witness ==
  \E r \in ViaCoordinator :
    LET q == rq[r] IN
    /\ q.kind = "askAI"
    /\ q.provider = "deepseek"
    /\ q.model = Undefined
    /\ env.DEFAULT_MODEL = "gpt-4o"
    /\ Len(q.http) > 0
    /\ q.http[1].model = "deepseek-chat"

Comparisons == {r \in reqs : rq[r].kind = "comparePokemon"}

(* C12: a comparePokemon request issues exactly two data-source fetches,   *)
(* both in flight together, to the lower-cased names; the Coordinator is   *)
(* called only when both fetch promises have resolved; if either promise   *)
(* is rejected (network failure or a body that is not JSON), whichever     *)
(* completes first, the request fails with no LLM provider call and no     *)
(* comparison text.                                                        *)
C12_ComparePokemonJoinsBothFetches ==
  \A r \in Comparisons :
    LET q == rq[r] IN
    /\ Len(q.poke) = 2
    /\ q.poke[1].url = "https://pokeapi.co/api/v2/pokemon/pikachu"
    /\ q.poke[2].url = "https://pokeapi.co/api/v2/pokemon/mew"
    /\ Len(q.calls) > 0 => \A i \in 1..2 : Resolved(q.poke[i])
    /\ IsSome(q.coord) => \A i \in 1..2 : Resolved(q.poke[i])
    /\ (\E i \in 1..2 : Rejected(q.poke[i])) =>
         /\ q.pc = "done"
         /\ IsSome(q.out)
         /\ ~Get(q.out).ok
         /\ q.calls = <<>>
         /\ q.http = <<>>

C12_Witness ==
  \E r \in Comparisons :
    LET q == rq[r] IN
    /\ q.arrived = <<2, 1>>
    /\ Resolved(q.poke[2])
    /\ IsSome(DataOf(q.poke[2]).types)
    /\ Rejected(q.poke[1])
    /\ q.pc = "done"

(* C13 as stated: in pokemonInfo and in comparePokemon at least one        *)
(* data-source fetch has completed before the first LLM provider call.     *)
C13_FetchBeforeProviderCall ==
  \A r \in reqs :
    (rq[r].kind \in {"pokemonInfo", "comparePokemon"} /\ Len(rq[r].calls) > 0) =>
      \E i \in 1..Len(rq[r].poke) : IsSome(rq[r].poke[i].response)

(* C13 amended: in comparePokemon both data-source fetches have completed  *)
(* before the first LLM provider call; pokemonInfo makes no data-source    *)
(* fetch and calls the Coordinator at once.                                *)
C13_OnlyComparePokemonFetches ==
  \A r \in reqs :
    LET q == rq[r] IN
    /\ (q.kind = "comparePokemon" /\ Len(q.calls) > 0) =>
         /\ Len(q.arrived) = 2
         /\ \A i \in 1..2 : IsSome(q.poke[i].response)
    /\ q.kind = "pokemonInfo" =>
         /\ q.poke = <<>>
         /\ Len(q.calls) > 0

C13_Witness ==
  \E r \in Comparisons :
    /\ Len(rq[r].calls) > 0
    /\ rq[r].arrived = <<1, 2>>
    /\ Len(rq[r].http) > 0

(* C14: in chatGPT, deepseek, askAI, pokemonInfo and comparePokemon a      *)
(* failure of the LLM call that no fallback recovered surfaces as a field  *)
(* error whose message is the cause wrapped with a prefix naming the       *)
(* operation, never as the raw client or Coordinator error.                *)
Cause(q) ==
  IF q.kind \in {"chatGPT", "deepseek"}
  THEN Get(q.calls[1].result).error.message
  ELSE Get(q.coord).error.message

C14_FailuresAreWrapped ==
  \A r \in reqs :
    LET q == rq[r] IN
    (/\ q.pc = "done"
     /\ Len(q.calls) > 0
     /\ ~Get(q.out).ok) =>
       /\ Get(q.out).message # Cause(q)
       /\ q.kind = "chatGPT" => Get(q.out).message = "ChatGPT error: " \o Cause(q)
       /\ q.kind = "deepseek" => Get(q.out).message = "DeepSeek error: " \o Cause(q)
       /\ q.kind = "askAI" => Get(q.out).message = "AI query failed: " \o Cause(q)

(* C15: when chatGPT, deepseek or askAI succeeds, the usage of the         *)
(* response is present: all three counts are 0 when the body of the        *)
(* answering upstream call carried no usage object, and they are that      *)
(* object's counts otherwise; for askAI whether the primary or the         *)
(* fallback call answered.                                                 *)
AnsweringBody(q) == Get(Get(Last(q.calls).response).body.json)

C15_UsageZeroedOrPassedThrough ==
  \A r \in reqs :
    LET q == rq[r] IN
    (/\ q.kind \in {"chatGPT", "deepseek", "askAI"}
     /\ q.pc = "done"
     /\ Get(q.out).ok) =>
       /\ ~IsSome(AnsweringBody(q).usage) =>
            /\ Get(q.out).usage.promptTokens = 0
            /\ Get(q.out).usage.completionTokens = 0
            /\ Get(q.out).usage.totalTokens = 0
       /\ IsSome(AnsweringBody(q).usage) =>
            /\ Get(q.out).usage.promptTokens = Get(AnsweringBody(q).usage).prompt_tokens
            /\ Get(q.out).usage.completionTokens = Get(AnsweringBody(q).usage).completion_tokens
            /\ Get(q.out).usage.totalTokens = Get(AnsweringBody(q).usage).total_tokens

C15_Witness ==
  \E r \in Coordinated :
    LET q == rq[r] IN
    /\ q.pc = "done"
    /\ Get(q.out).ok
    /\ Len(q.calls) = 2
    /\ IsSome(AnsweringBody(q).usage)
    /\ Get(q.out).usage.totalTokens = 3
    /\ Get(q.out).usage.promptTokens = 1

(* C17: on a non-2xx response whose JSON error body has error.type =       *)
(* insufficient_quota, callOpenAI fails with the quota error, which is not *)
(* its generic "OpenAI API error: <status> <body>" error; callDeepSeek     *)
(* fails with "DeepSeek API error: <status> <body>" on every non-2xx       *)
(* response whatever the body.  A quota error of the primary call makes    *)
(* the Coordinator fall back like any other failure when the alternate     *)
(* credential exists.                                                      *)
QuotaBody(body) ==
  /\ IsSome(body.json)
  /\ IsSome(Get(body.json).error)
  /\ Get(Get(body.json).error).type = "insufficient_quota"

C17_QuotaDetectionOnlyInOpenAI ==
  \A r \in reqs :
    LET q == rq[r] IN
    \A i \in 1..Len(q.calls) :
      LET call == q.calls[i] IN
      (/\ IsSome(call.response)
       /\ ~Get(call.response).net
       /\ ~ResponseOk(Get(call.response))) =>
         LET resp == Get(call.response)
             generic == ToString(resp.status) \o " " \o resp.body.raw
         IN
         /\ Failed(call)
         /\ call.client = "deepseek" =>
              Get(call.result).error.message = "DeepSeek API error: " \o generic
         /\ (call.client = "openai" /\ QuotaBody(resp.body)) =>
              /\ Get(call.result).error.message = QUOTA_MESSAGE
              /\ Get(call.result).error.message # "OpenAI API error: " \o generic
              /\ (r \in ViaCoordinator /\ i = 1 /\ q.provider = "openai"
                  /\ Truthy(env.DEEPSEEK_API_KEY)) =>
                   /\ Len(q.calls) = 2
                   /\ q.calls[2].client = "deepseek"

C17_Witness ==
  \E r \in Coordinated :
    LET q == rq[r] IN
    /\ q.provider = "openai"
    /\ Len(q.calls) = 2
    /\ IsSome(q.calls[1].response)
    /\ QuotaBody(Get(q.calls[1].response).body)
    /\ IsSome(q.calls[2].response)
    /\ QuotaBody(Get(q.calls[2].response).body)
    /\ Get(q.calls[2].response).status = 429

(* C18: when the fallback call fails, callAI throws the error of the       *)
(* fallback call, not that of the primary call; when the fallback          *)
(* succeeds callAI returns and no error surfaces.                          *)
C18_FallbackErrorPropagates ==
  \A r \in ViaCoordinator :
    LET q == rq[r] IN
    /\ (Len(q.calls) = 2 /\ Failed(q.calls[2])) =>
         /\ IsSome(q.coord)
         /\ Get(q.coord).threw
         /\ Get(q.coord).error = Get(q.calls[2].result).error
         /\ Get(q.coord).error.origin = 2
         /\ Get(q.coord).error # Get(q.calls[1].result).error
    /\ (Len(q.calls) = 2 /\ Succeeded(q.calls[2])) =>
         /\ IsSome(q.coord)
         /\ ~Get(q.coord).threw
         /\ Get(q.out).ok

C18_Witness ==
  \E r \in Coordinated :
    LET q == rq[r] IN
    /\ Len(q.calls) = 2
    /\ Failed(q.calls[2])
    /\ Get(q.calls[1].result).error.message = "DeepSeek API key is not configured"
    /\ Get(q.calls[2].result).error.message = "fetch failed"
    /\ ~Get(q.out).ok

(* C20: with a provider string that is neither "openai" nor "deepseek"     *)
(* (askAI, pokemonInfo, comparePokemon) the primary call goes to the       *)
(* OpenAI client; if it fails no fallback is attempted, even with a        *)
(* DeepSeek credential, and the primary error propagates; if it succeeds   *)
(* the provider field is the string as given.                              *)
C20_UnrecognisedProvider ==
  \A r \in ViaCoordinator :
    LET q == rq[r] IN
    q.provider \notin {"openai", "deepseek"} =>
      /\ Len(q.calls) = 1
      /\ q.calls[1].client = "openai"
      /\ \A j \in 1..Len(q.http) : q.http[j].url = OPENAI_URL
      /\ Failed(q.calls[1]) =>
           /\ q.pc = "done"
           /\ Get(q.coord).threw
           /\ Get(q.coord).error = Get(q.calls[1].result).error
           /\ ~Get(q.out).ok
      /\ Succeeded(q.calls[1]) =>
           /\ ~Get(q.coord).threw
           /\ Get(q.coord).provider = q.provider
           /\ q.kind = "askAI" => Get(q.out).provider = q.provider

C20_Witness ==
  \E r \in Coordinated :
    LET q == rq[r] IN
    /\ q.provider = "claude"
    /\ Truthy(env.DEEPSEEK_API_KEY)
    /\ IsSome(q.calls[1].response)
    /\ Failed(q.calls[1])
    /\ q.pc = "done"

(* C16: with two requests served concurrently and their awaits interleaved *)
(* in every way, a step of one request changes neither the state of the    *)
(* other request nor the configuration, and the outbound calls and the     *)
(* result of a request are determined by its own arguments, the            *)
(* configuration and the responses to its own calls: two requests with the *)
(* same arguments that have received the same responses are in the same    *)
(* state, whatever the other one did in between.                           *)
Received(q) ==
  [i \in 1..Len(SelectSeq(q.calls, LAMBDA c : IsSome(c.response))) |->
     Get(SelectSeq(q.calls, LAMBDA c : IsSome(c.response))[i].response)]

Inputs(q) ==
  <<q.kind, q.prompt, q.provider, q.model, Received(q),
    [i \in 1..Len(q.poke) |-> <<q.poke[i].name, q.poke[i].response>>], q.arrived>>

C16_SameInputsSameRun ==
  \A r, s \in reqs : Inputs(rq[r]) = Inputs(rq[s]) => rq[r] = rq[s]

C16_StepOfOneRequest ==
  /\ env' = env
  /\ reqs' = reqs
  /\ \E r \in reqs : \A s \in AllReqs \ {r} : rq'[s] = rq[s]

C16_RequestsIndependent ==
  [](C16_SameInputsSameRun) /\ [][C16_StepOfOneRequest]_vars

C16_Witness ==
  /\ rq[1].kind = "askAI" /\ rq[2].kind = "askAI"
  /\ rq[1].provider = rq[2].provider
  /\ rq[1].pc = "done" /\ Get(rq[1].out).ok /\ Len(rq[1].calls) = 2
  /\ rq[2].pc = "done" /\ ~Get(rq[2].out).ok /\ Len(rq[2].calls) = 2
  /\ env.OPENAI_API_KEY = "sk-openai"

(* C19: if every outbound HTTP call eventually returns, every suspended    *)
(* request eventually completes, with a success or an error, after at most *)
(* two data-source fetches and two provider requests; and there is no      *)
(* timeout or cancellation step: a suspended request leaves its await, and *)
(* a fallback call is issued, only in a step in which a response to one of *)
(* its own calls arrives.                                                  *)
Suspended(q) == q.pc \in {"await", "join"}

Arrivals(q) ==
  Len(SelectSeq(q.calls, LAMBDA c : IsSome(c.response)))
  + Len(SelectSeq(q.poke, LAMBDA f : IsSome(f.response)))

C19_BoundedCalls ==
  \A r \in AllReqs :
    /\ Len(rq[r].http) <= 2
    /\ Len(rq[r].poke) <= 2
    /\ rq[r].pc = "done" => IsSome(rq[r].out)

C19_OnlyAResponseResumes ==
  \A r \in AllReqs :
    (Suspended(rq[r]) /\ rq'[r] # rq[r]) => Arrivals(rq'[r]) = Arrivals(rq[r]) + 1

C19_CompletesIfCallsReturn ==
  /\ \A r \in AllReqs : Suspended(rq[r]) ~> (rq[r].pc = "done")
  /\ []C19_BoundedCalls
  /\ [][C19_OnlyAResponseResumes]_vars

C19_Witness ==
  \E r \in Comparisons :
    /\ rq[r].pc = "done"
    /\ Get(rq[r].out).ok
    /\ Len(rq[r].http) = 2
    /\ Len(rq[r].arrived) = 2
====
